---- MODULE Spec2Model ----
(***************************************************************************)
(* Role resolution and authorization guards of the railway-backend2 API.   *)
(*                                                                         *)
(* Two Express servers are modelled:                                       *)
(*   "server.js"  src/server.js          (authenticateUser + 3 role routes)*)
(*   "part_001"   src/unnamed/part_001   (the full server: guards, profile,*)
(*                                        update, admin/users)             *)
(* One behaviour is one HTTP request walking its middleware chain.  Every  *)
(* `await` of the source is split in two steps: the step that issues the   *)
(* call (pending # NoCall) and the step that resumes with its outcome.     *)
(* The Firebase store and identity provider are external: what a read      *)
(* returns is drawn when the read completes.                               *)
(***************************************************************************)
EXTENDS Integers, Sequences, FiniteSets

\* ---------------------------------------------------------------- bounds
MaxSuppliers == 2   \* records in a 'fournisseur' snapshot
MaxAdmins == 2     \* records in the 'admin' collection

\* ------------------------------------------------------- JS value domain
Undefined == "undefined"      \* JS undefined: an absent property or claim
Null == [null |-> TRUE]       \* JS null
NoCall == [op |-> "none", arg |-> "none"]

Uids == {"u1", "u2"}
Emails == {"a@x.com", "A@x.com"}

\* The e-mail claim of each identity: u1 signs in with an e-mail, u2 has
\* none (phone or anonymous sign-in), so decodedToken.email / user.email
\* is undefined for it.
EmailOf(uid) == IF uid = "u1" THEN "a@x.com" ELSE Undefined

\* -------------------------------------------------------------- requests
TokenKinds == {"valid", "malformed", "expired", "revoked", "orphan"}
Tokens == [kind : TokenKinds, uid : Uids]
NoToken == [kind : {"none"}, uid : {Undefined}]

\* req.headers.authorization: absent, another scheme, or 'Bearer <token>'
Headers ==
  [scheme : {"absent", "Basic"}, token : NoToken]
    \cup [scheme : {"Bearer"}, token : Tokens]

\* req.body of PUT /api/user/update; Undefined marks a key that is absent,
\* "null" a key sent as JSON null.
Bodies ==
  [displayName : {Undefined, "Bob", "null"},
   photoURL : {Undefined, "http://p"},
   foo : {Undefined, "bar"},
   uid : {Undefined, "u1"}]
EmptyBody ==
  [displayName |-> Undefined, photoURL |-> Undefined,
   foo |-> Undefined, uid |-> Undefined]

\* req.user before authentication: the property is absent
NoUser ==
  [present |-> FALSE, uid |-> Undefined, email |-> Undefined,
   isAdmin |-> FALSE, isSupplier |-> FALSE, supplierData |-> Null]

\* ----------------------------------------------------------------- store
KeyOf(i) == <<"k1", "k2", "k3", "k4">>[i]
NameOf(i) == <<"Acme", "Bati", "Ciment", "Dalle">>[i]

SupplierVals(i) ==
  [email : Emails \cup {Undefined},
   id : Uids \cup {Undefined},
   name : {NameOf(i)},
   departement : {"Ouest"},
   telephone : {Undefined},
   address : {Undefined}]

\* A snapshot value of db.ref('fournisseur'): the children in the order
\* `for (const supplierId in suppliers)` visits them.  The empty sequence
\* is snapshot.val() === null (no data at the location).
SupplierSnapshots ==
  UNION { { s \in [1..n -> [key : {KeyOf(j) : j \in 1..n},
                             val : UNION {SupplierVals(j) : j \in 1..n}]] :
              \A i \in 1..n : s[i].key = KeyOf(i) /\ s[i].val \in SupplierVals(i) }
          : n \in 0..MaxSuppliers }

AdminKeyOf(i) == <<"a1", "a2", "a3", "a4">>[i]
AdminCollections ==
  UNION { { s \in [1..n -> [key : {AdminKeyOf(j) : j \in 1..n},
                             val : [email : Emails \cup {Undefined}]]] :
              \A i \in 1..n : s[i].key = AdminKeyOf(i) }
          : n \in 0..MaxAdmins }

\* ---------------------------------------------------------------- routes
Servers == {"server.js", "part_001"}

Chain(srv, rt) ==
  IF srv = "server.js" THEN
    CASE rt = "/api/check-supplier" -> <<"authenticateUser", "srvCheckSupplier">>
      [] rt = "/api/check-admin" -> <<"authenticateUser", "srvCheckAdmin">>
      [] rt = "/api/check-roles" -> <<"authenticateUser", "srvCheckRoles">>
      [] rt = "/api/health" -> <<"srvHealth">>
  ELSE
    CASE rt = "/api/check-roles" -> <<"authenticateFirebaseUser", "checkRoles">>
      [] rt = "/api/check-supplier" -> <<"authenticateFirebaseUser", "checkSupplier">>
      [] rt = "/api/check-admin" -> <<"authenticateFirebaseUser", "checkAdmin">>
      [] rt = "/api/user/profile" -> <<"authenticateFirebaseUser", "userProfile">>
      [] rt = "/api/user/update" -> <<"authenticateFirebaseUser", "userUpdate">>
      [] rt = "/api/admin/users" ->
           <<"authenticateFirebaseUser", "requireAdmin", "adminUsers">>
      [] rt = "/api/health" -> <<"health">>
      \* the guards composed in front of a downstream handler, with and
      \* without a preceding authentication step
      [] rt = "guard:auth+supplier" ->
           <<"authenticateFirebaseUser", "requireSupplier", "downstream">>
      [] rt = "guard:supplier" -> <<"requireSupplier", "downstream">>
      [] rt = "guard:admin" -> <<"requireAdmin", "downstream">>

Routes(srv) ==
  IF srv = "server.js"
  THEN {"/api/check-supplier", "/api/check-admin", "/api/check-roles",
        "/api/health"}
  ELSE {"/api/health", "/api/check-roles", "/api/check-supplier", "/api/check-admin",
        "/api/user/profile", "/api/user/update", "/api/admin/users",
        "guard:auth+supplier", "guard:supplier", "guard:admin"}

VARIABLES
  server,          \* which server file handles the request
  route,           \* the matched route
  req,             \* [authorization, body, user]
  res,             \* [status, body]; status 0: nothing sent yet
  idx,             \* position in the middleware chain
  pc,              \* "idle" | "run" | "await" | "done"
  pending,         \* the awaited call, NoCall when none is outstanding
  calls,           \* calls issued by this request, in order
  ran,             \* middleware / handlers entered, in order
  outcomes,        \* per completed call, in order: TRUE resolved, FALSE rejected
  suppliers,       \* snapshot.val() of 'fournisseur' (local of the scan)
  isSupplier,      \* local of the scan
  supplierId,      \* loop variable at the break (Undefined: no break)
  supplierData,    \* local of the scan
  adminColl,       \* contents of 'admin' when the query ran
  adminData,       \* snapshot.val() of the admin query
  filteredUpdates  \* local of PUT /api/user/update

vars ==
  <<server, route, req, res, idx, pc, pending, calls, ran, outcomes, suppliers,
    isSupplier, supplierId, supplierData, adminColl, adminData, filteredUpdates>>

ctl == <<server, route>>
scanVars == <<suppliers, isSupplier, supplierId, supplierData>>
adminVars == <<adminColl, adminData>>

Current == Chain(server, route)[idx]

Init ==
  /\ server = "part_001"
  /\ route = "none"
  /\ req = [authorization |-> [scheme |-> "absent",
                               token |-> [kind |-> "none", uid |-> Undefined]],
            body |-> EmptyBody, user |-> NoUser]
  /\ res = [status |-> 0, body |-> Null]
  /\ idx = 0
  /\ pc = "idle"
  /\ pending = NoCall
  /\ calls = <<>>
  /\ ran = <<>>
  /\ outcomes = <<>>
  /\ suppliers = <<>>
  /\ isSupplier = FALSE
  /\ supplierId = Undefined
  /\ supplierData = Null
  /\ adminColl = <<>>
  /\ adminData = <<>>
  /\ filteredUpdates = EmptyBody

\* ------------------------------------------------------- control helpers
\* res.status(s).json(b): the response is sent and the chain ends.
Respond(s, b) ==
  /\ res' = [status |-> s, body |-> b]
  /\ pc' = "done"
  /\ pending' = NoCall
  /\ idx' = idx

\* next(): control passes to the following middleware of the chain.
CallNext ==
  /\ idx' = idx + 1
  /\ pc' = "run"
  /\ pending' = NoCall
  /\ res' = res

\* A call site that fires the same call twice before suspending.
IssueTwice(op, arg) ==
  /\ pending' = [op |-> op, arg |-> arg]
  /\ calls' = calls \o <<[op |-> op, arg |-> arg], [op |-> op, arg |-> arg]>>
  /\ pc' = "await"
  /\ idx' = idx
  /\ res' = res

\* `await f(arg)`: the call is issued and the handler suspends.
Issue(op, arg) ==
  /\ pending' = [op |-> op, arg |-> arg]
  /\ calls' = Append(calls, [op |-> op, arg |-> arg])
  /\ pc' = "await"
  /\ idx' = idx
  /\ res' = res

Enter(mw) ==
  /\ pc = "run"
  /\ Current = mw
  /\ ran' = Append(ran, mw)

Resume(mw, op) ==
  /\ pc = "await"
  /\ Current = mw
  /\ pending.op = op
  /\ ran' = ran

\* Express dispatches a request to the chain of its route.
Receive ==
  /\ pc = "idle"
  /\ \E srv \in Servers, h \in Headers :
       \E rt \in Routes(srv) :
         \E b \in (IF rt = "/api/user/update" THEN Bodies ELSE {EmptyBody}) :
           /\ server' = srv
           /\ route' = rt
           /\ req' = [authorization |-> h, body |-> b, user |-> NoUser]
  /\ idx' = 1
  /\ pc' = "run"
  /\ UNCHANGED <<res, pending, calls, ran, outcomes, scanVars, adminVars,
                 filteredUpdates>>

\* ------------------------------------------------------ identity provider
\* admin.auth().verifyIdToken(token): the decoded claims, or a rejection
\* with an error code.  The call passes no checkRevoked flag, so whether a
\* revoked token is rejected is the provider's choice.
VerifyOutcomes(tok) ==
  CASE tok.kind = "malformed" -> {[ok |-> FALSE, code |-> "auth/argument-error"]}
    [] tok.kind = "expired" -> {[ok |-> FALSE, code |-> "auth/id-token-expired"]}
    [] tok.kind = "revoked" ->
         {[ok |-> FALSE, code |-> "auth/id-token-revoked"],
          [ok |-> TRUE, uid |-> tok.uid, email |-> EmailOf(tok.uid)]}
    [] OTHER -> {[ok |-> TRUE, uid |-> tok.uid, email |-> EmailOf(tok.uid)]}

\* auth.getUser(uid): the user record, 'auth/user-not-found' when the
\* account of a still valid token was deleted, or an internal failure.
GetUserOutcomes(tok) ==
  IF tok.kind = "orphan"
  THEN {[ok |-> FALSE, code |-> "auth/user-not-found"]}
  ELSE {[ok |-> TRUE, uid |-> tok.uid, email |-> EmailOf(tok.uid)],
        [ok |-> FALSE, code |-> "auth/internal-error"]}

\* `!authHeader || !authHeader.startsWith('Bearer ')`
BadHeader(h) == h.scheme # "Bearer"

User(uid, email) ==
  [present |-> TRUE, uid |-> uid, email |-> email,
   isAdmin |-> FALSE, isSupplier |-> FALSE, supplierData |-> Null]

\* ---------------------------------------------- src/server.js middleware
authenticateUser_Start ==
  /\ Enter("authenticateUser")
  /\ IF BadHeader(req.authorization)
     THEN /\ Respond(401, [error |-> "Non autorisé"])
          /\ calls' = calls
     ELSE Issue("verifyIdToken", req.authorization.token)
  /\ UNCHANGED <<ctl, req, outcomes, scanVars, adminVars, filteredUpdates>>

authenticateUser_Verified ==
  /\ Resume("authenticateUser", "verifyIdToken")
  /\ \E o \in VerifyOutcomes(pending.arg) :
       IF o.ok
       THEN /\ req' = [req EXCEPT !.user = User(o.uid, o.email)]
            /\ CallNext
            /\ outcomes' = Append(outcomes, TRUE)
       ELSE /\ Respond(401, [error |-> "Token invalide"])
            /\ outcomes' = Append(outcomes, FALSE)
            /\ req' = req
  /\ UNCHANGED <<ctl, calls, scanVars, adminVars, filteredUpdates>>

\* --------------------------------------- src/unnamed/part_001 middleware
\* A catch block whose default status is 500.
AuthErrorStatus500(code) == IF code = "auth/user-not-found" THEN 404 ELSE 500

AuthErrorStatus(code) == IF code = "auth/user-not-found" THEN 404 ELSE 401

AuthErrorMessage(code) ==
  CASE code = "auth/id-token-expired" -> "Token expiré, veuillez vous reconnecter"
    [] code = "auth/id-token-revoked" -> "Token révoqué"
    [] code = "auth/user-not-found" -> "Utilisateur non trouvé"
    [] OTHER -> "Token invalide ou expiré"

AuthCatch(code) ==
  Respond(AuthErrorStatus(code),
          [error |-> "Authentification échouée",
           message |-> AuthErrorMessage(code), code |-> code])

authenticateFirebaseUser_Start ==
  /\ Enter("authenticateFirebaseUser")
  /\ IF BadHeader(req.authorization)
     THEN /\ Respond(401, [error |-> "Non autorisé",
                           message |-> "Token d'authentification manquant"])
          /\ calls' = calls
     ELSE Issue("verifyIdToken", req.authorization.token)
  /\ UNCHANGED <<ctl, req, outcomes, scanVars, adminVars, filteredUpdates>>

authenticateFirebaseUser_Verified ==
  /\ Resume("authenticateFirebaseUser", "verifyIdToken")
  /\ \E o \in VerifyOutcomes(pending.arg) :
       IF o.ok
       THEN /\ Issue("getUser", o.uid)
            /\ outcomes' = Append(outcomes, TRUE)
       ELSE /\ AuthCatch(o.code)
            /\ outcomes' = Append(outcomes, FALSE)
            /\ calls' = calls
  /\ UNCHANGED <<ctl, req, scanVars, adminVars, filteredUpdates>>

authenticateFirebaseUser_GotUser ==
  /\ Resume("authenticateFirebaseUser", "getUser")
  /\ \E o \in GetUserOutcomes(req.authorization.token) :
       IF o.ok
       THEN /\ req' = [req EXCEPT !.user = User(o.uid, o.email)]
            /\ CallNext
            /\ outcomes' = Append(outcomes, TRUE)
       ELSE /\ AuthCatch(o.code)
            /\ outcomes' = Append(outcomes, FALSE)
            /\ req' = req
  /\ UNCHANGED <<ctl, calls, scanVars, adminVars, filteredUpdates>>

\* ----------------------------------------------------------- role store
\* Outcome of `await suppliersRef.once('value')`
SupplierFetchOutcomes ==
  {[ok |-> TRUE, val |-> s] : s \in SupplierSnapshots}
    \cup {[ok |-> FALSE, val |-> <<>>]}

\* Outcome of `await adminRef.orderByChild('email').equalTo(e).once('value')`
AdminQueryOutcomes ==
  {[ok |-> TRUE, val |-> c] : c \in AdminCollections}
    \cup {[ok |-> FALSE, val |-> <<>>]}

\* orderByChild('email').equalTo(email): the children whose email child is
\* exactly `email`; the empty sequence is snapshot.val() === null.
EqualTo(coll, email) == SelectSeq(coll, LAMBDA e : e.val.email = email)

\* equalTo(undefined) is rejected by the SDK's argument validation while the
\* query is being built, inside the handler's try block and before any read.
QueryThrows(email) == email = Undefined

\* A comparison that forgets the e-mail.
MatchesIdOnly(supplier, user) == supplier.id = user.uid

\* `supplier.email === user.email || supplier.id === user.uid`
Matches(supplier, user) ==
  supplier.email = user.email \/ supplier.id = user.uid

\* A scan that keeps looping after a match and so ends on the last one.
RECURSIVE ScanLast(_, _, _)
ScanLast(s, user, i) ==
  IF i > Len(s) THEN 0
  ELSE LET later == ScanLast(s, user, i + 1)
       IN IF later # 0 THEN later
          ELSE IF Matches(s[i].val, user) THEN i ELSE 0

\* `for (const supplierId in suppliers) { ...; if (match) { ...; break; } }`
\* from position i on: the position of the break, 0 when the loop runs out.
RECURSIVE ScanFrom(_, _, _)
ScanFrom(s, user, i) ==
  IF i > Len(s) THEN 0
  ELSE IF Matches(s[i].val, user) THEN i
  ELSE ScanFrom(s, user, i + 1)

\* supplierData of GET /api/check-roles
RolesSupplierData(key, supplier) ==
  [id |-> key, name |-> supplier.name, departement |-> supplier.departement,
   telephone |-> supplier.telephone, address |-> supplier.address]

\* supplierData of GET /api/check-supplier
CheckSupplierData(key, supplier) ==
  [id |-> key, name |-> supplier.name, departement |-> supplier.departement]

\* A guard record built without the e-mail of the matched record.
GuardSupplierDataNoEmail(key, supplier) ==
  [supplier EXCEPT !.id = key, !.email = Undefined]

\* supplierData of requireSupplier: `{ id: supplierId, ...supplier }`; the
\* spread comes second, so an id property of the record replaces the key.
GuardSupplierData(key, supplier) ==
  [supplier EXCEPT !.id = IF supplier.id # Undefined THEN supplier.id ELSE key]

\* The scan block shared by the four handlers; kind selects how the
\* handler builds supplierData ("none": src/server.js keeps no record).
ScanInto(snapshot, user, kind) ==
  LET i == ScanFrom(snapshot, user, 1) IN
  /\ suppliers' = snapshot
  /\ isSupplier' = (i # 0)
  /\ supplierId' = IF i # 0 THEN snapshot[i].key ELSE Undefined
  /\ supplierData' =
       IF i = 0 \/ kind = "none" THEN Null
       ELSE CASE kind = "roles" -> RolesSupplierData(snapshot[i].key, snapshot[i].val)
              [] kind = "check" -> CheckSupplierData(snapshot[i].key, snapshot[i].val)
              [] kind = "guard" -> GuardSupplierData(snapshot[i].key, snapshot[i].val)

\* A catch block that reports the roles as denied.
ServerErrorDenied ==
  [error |-> "Erreur interne du serveur", isSupplier |-> FALSE, isAdmin |-> FALSE]

\* `{ error: 'Erreur interne du serveur' }` of the catch blocks
ServerError == [error |-> "Erreur interne du serveur"]

\* A guard that never notices a missing req.user.
UnauthenticatedNever(r) == FALSE

\* `if (!req.user)`
Unauthenticated(r) == ~r.user.present

\* A guard that lets every caller through.
DeniedNever(data) == FALSE

\* `if (!adminData)`
Denied(data) == data = <<>>

\* ------------------------------------------------- part_001: the guards
requireAdmin_Start ==
  /\ Enter("requireAdmin")
  /\ IF Unauthenticated(req)
     THEN /\ Respond(401, [error |-> "Utilisateur non authentifié"])
          /\ calls' = calls
     ELSE IF QueryThrows(req.user.email)
     THEN /\ Respond(500, ServerError)
          /\ calls' = calls
     ELSE Issue("admin.equalTo", req.user.email)
  /\ UNCHANGED <<ctl, req, outcomes, scanVars, adminVars, filteredUpdates>>

requireAdmin_Result ==
  /\ Resume("requireAdmin", "admin.equalTo")
  /\ \E o \in AdminQueryOutcomes :
       IF ~o.ok
       THEN /\ Respond(500, ServerError)
            /\ outcomes' = Append(outcomes, FALSE)
            /\ UNCHANGED <<req, adminVars>>
       ELSE /\ adminColl' = o.val
            /\ adminData' = EqualTo(o.val, req.user.email)
            /\ outcomes' = Append(outcomes, TRUE)
            /\ IF Denied(adminData')
               THEN /\ Respond(403, [error |-> "Accès refusé",
                          message |-> "Vous n'avez pas les permissions d'administrateur"])
                    /\ req' = req
               ELSE /\ req' = [req EXCEPT !.user.isAdmin = TRUE]
                    /\ CallNext
  /\ UNCHANGED <<ctl, calls, scanVars, filteredUpdates>>

requireSupplier_Start ==
  /\ Enter("requireSupplier")
  /\ IF Unauthenticated(req)
     THEN /\ Respond(401, [error |-> "Utilisateur non authentifié"])
          /\ calls' = calls
     ELSE Issue("fournisseur.once", "value")
  /\ UNCHANGED <<ctl, req, outcomes, scanVars, adminVars, filteredUpdates>>

requireSupplier_Result ==
  /\ Resume("requireSupplier", "fournisseur.once")
  /\ \E o \in SupplierFetchOutcomes :
       IF ~o.ok
       THEN /\ Respond(500, ServerError)
            /\ outcomes' = Append(outcomes, FALSE)
            /\ UNCHANGED <<req, scanVars>>
       ELSE /\ ScanInto(o.val, req.user, "guard")
            /\ outcomes' = Append(outcomes, TRUE)
            /\ IF ~isSupplier'
               THEN /\ Respond(403, [error |-> "Accès refusé",
                          message |-> "Vous n'avez pas les permissions de fournisseur"])
                    /\ req' = req
               ELSE /\ req' = [req EXCEPT !.user.isSupplier = TRUE,
                                          !.user.supplierData = supplierData']
                    /\ CallNext
  /\ UNCHANGED <<ctl, calls, adminVars, filteredUpdates>>

\* The handler behind a guard.
downstream ==
  /\ Enter("downstream")
  /\ Respond(200, [ok |-> TRUE])
  /\ UNCHANGED <<ctl, req, calls, outcomes, scanVars, adminVars, filteredUpdates>>

\* ------------------------------------------- part_001: role endpoints
UserBrief(user) == [uid |-> user.uid, email |-> user.email]

checkRoles_Start ==
  /\ Enter("checkRoles")
  /\ Issue("fournisseur.once", "value")
  /\ UNCHANGED <<ctl, req, outcomes, scanVars, adminVars, filteredUpdates>>

\* A handler that answers as soon as the supplier scan found a match and
\* skips the admin query.
checkRoles_SuppliersShortCircuit ==
  /\ Resume("checkRoles", "fournisseur.once")
  /\ \E o \in SupplierFetchOutcomes :
       IF ~o.ok
       THEN /\ Respond(500, ServerError)
            /\ outcomes' = Append(outcomes, FALSE)
            /\ UNCHANGED <<calls, scanVars>>
       ELSE /\ ScanInto(o.val, req.user, "roles")
            /\ outcomes' = Append(outcomes, TRUE)
            /\ IF isSupplier'
               THEN /\ Respond(200,
                         [user |-> UserBrief(req.user),
                          roles |-> [isSupplier |-> TRUE, isAdmin |-> FALSE,
                                     isAuthenticated |-> TRUE],
                          supplier |-> supplierData'])
                    /\ calls' = calls
               ELSE IF QueryThrows(req.user.email)
               THEN /\ Respond(500, ServerError)
                    /\ calls' = calls
               ELSE Issue("admin.equalTo", req.user.email)
  /\ UNCHANGED <<ctl, req, adminVars, filteredUpdates>>

\* the supplier scan, then the admin query is built and awaited
checkRoles_Suppliers ==
  /\ Resume("checkRoles", "fournisseur.once")
  /\ \E o \in SupplierFetchOutcomes :
       IF ~o.ok
       THEN /\ Respond(500, ServerError)
            /\ outcomes' = Append(outcomes, FALSE)
            /\ UNCHANGED <<calls, scanVars>>
       ELSE /\ ScanInto(o.val, req.user, "roles")
            /\ outcomes' = Append(outcomes, TRUE)
            /\ IF QueryThrows(req.user.email)
               THEN /\ Respond(500, ServerError)
                    /\ calls' = calls
               ELSE Issue("admin.equalTo", req.user.email)
  /\ UNCHANGED <<ctl, req, adminVars, filteredUpdates>>

checkRoles_Admin ==
  /\ Resume("checkRoles", "admin.equalTo")
  /\ \E o \in AdminQueryOutcomes :
       IF ~o.ok
       THEN /\ Respond(500, ServerError)
            /\ outcomes' = Append(outcomes, FALSE)
            /\ UNCHANGED adminVars
       ELSE /\ adminColl' = o.val
            /\ adminData' = EqualTo(o.val, req.user.email)
            /\ outcomes' = Append(outcomes, TRUE)
            /\ Respond(200,
                 [user |-> UserBrief(req.user),
                  roles |-> [isSupplier |-> isSupplier,
                             isAdmin |-> (adminData' # <<>>),
                             isAuthenticated |-> TRUE],
                  supplier |-> supplierData])
  /\ UNCHANGED <<ctl, req, calls, scanVars, filteredUpdates>>

checkSupplier_Start ==
  /\ Enter("checkSupplier")
  /\ Issue("fournisseur.once", "value")
  /\ UNCHANGED <<ctl, req, outcomes, scanVars, adminVars, filteredUpdates>>

checkSupplier_Result ==
  /\ Resume("checkSupplier", "fournisseur.once")
  /\ \E o \in SupplierFetchOutcomes :
       IF ~o.ok
       THEN /\ Respond(500, ServerError)
            /\ outcomes' = Append(outcomes, FALSE)
            /\ UNCHANGED scanVars
       ELSE /\ ScanInto(o.val, req.user, "check")
            /\ outcomes' = Append(outcomes, TRUE)
            /\ Respond(200,
                 [isSupplier |-> isSupplier', supplier |-> supplierData',
                  user |-> UserBrief(req.user)])
  /\ UNCHANGED <<ctl, req, calls, adminVars, filteredUpdates>>

checkAdmin_Start ==
  /\ Enter("checkAdmin")
  /\ IF QueryThrows(req.user.email)
     THEN /\ Respond(500, ServerError)
          /\ calls' = calls
     ELSE Issue("admin.equalTo", req.user.email)
  /\ UNCHANGED <<ctl, req, outcomes, scanVars, adminVars, filteredUpdates>>

\* `isAdmin ? Object.values(adminData)[0] : null`
AdminInfo(data) == IF data # <<>> THEN data[1].val ELSE Null

checkAdmin_Result ==
  /\ Resume("checkAdmin", "admin.equalTo")
  /\ \E o \in AdminQueryOutcomes :
       IF ~o.ok
       THEN /\ Respond(500, ServerError)
            /\ outcomes' = Append(outcomes, FALSE)
            /\ UNCHANGED adminVars
       ELSE /\ adminColl' = o.val
            /\ adminData' = EqualTo(o.val, req.user.email)
            /\ outcomes' = Append(outcomes, TRUE)
            /\ Respond(200,
                 [isAdmin |-> (adminData' # <<>>),
                  admin |-> AdminInfo(adminData'),
                  user |-> UserBrief(req.user)])
  /\ UNCHANGED <<ctl, req, calls, scanVars, filteredUpdates>>

\* -------------------------------------------- src/server.js: endpoints
srvCheckSupplier_Start ==
  /\ Enter("srvCheckSupplier")
  /\ Issue("fournisseur.once", "value")
  /\ UNCHANGED <<ctl, req, outcomes, scanVars, adminVars, filteredUpdates>>

srvCheckSupplier_Result ==
  /\ Resume("srvCheckSupplier", "fournisseur.once")
  /\ \E o \in SupplierFetchOutcomes :
       IF ~o.ok
       THEN /\ Respond(500, ServerError)
            /\ outcomes' = Append(outcomes, FALSE)
            /\ UNCHANGED scanVars
       ELSE /\ outcomes' = Append(outcomes, TRUE)
            /\ IF o.val = <<>>
               \* `if (!suppliers) return res.json({ isSupplier: false })`
               THEN /\ suppliers' = o.val
                    /\ UNCHANGED <<isSupplier, supplierId, supplierData>>
                    /\ Respond(200, [isSupplier |-> FALSE])
               ELSE /\ ScanInto(o.val, req.user, "none")
                    /\ Respond(200, [isSupplier |-> isSupplier'])
  /\ UNCHANGED <<ctl, req, calls, adminVars, filteredUpdates>>

srvCheckAdmin_Start ==
  /\ Enter("srvCheckAdmin")
  /\ IF QueryThrows(req.user.email)
     THEN /\ Respond(500, ServerError)
          /\ calls' = calls
     ELSE Issue("admin.equalTo", req.user.email)
  /\ UNCHANGED <<ctl, req, outcomes, scanVars, adminVars, filteredUpdates>>

srvCheckAdmin_Result ==
  /\ Resume("srvCheckAdmin", "admin.equalTo")
  /\ \E o \in AdminQueryOutcomes :
       IF ~o.ok
       THEN /\ Respond(500, ServerError)
            /\ outcomes' = Append(outcomes, FALSE)
            /\ UNCHANGED adminVars
       ELSE /\ adminColl' = o.val
            /\ adminData' = EqualTo(o.val, req.user.email)
            /\ outcomes' = Append(outcomes, TRUE)
            /\ Respond(200, [isAdmin |-> (adminData' # <<>>)])
  /\ UNCHANGED <<ctl, req, calls, scanVars, filteredUpdates>>

srvCheckRoles_Start ==
  /\ Enter("srvCheckRoles")
  /\ Issue("fournisseur.once", "value")
  /\ UNCHANGED <<ctl, req, outcomes, scanVars, adminVars, filteredUpdates>>

srvCheckRoles_Suppliers ==
  /\ Resume("srvCheckRoles", "fournisseur.once")
  /\ \E o \in SupplierFetchOutcomes :
       IF ~o.ok
       THEN /\ Respond(500, ServerError)
            /\ outcomes' = Append(outcomes, FALSE)
            /\ UNCHANGED <<calls, scanVars>>
       ELSE /\ ScanInto(o.val, req.user, "none")
            /\ outcomes' = Append(outcomes, TRUE)
            /\ IF QueryThrows(req.user.email)
               THEN /\ Respond(500, ServerError)
                    /\ calls' = calls
               ELSE Issue("admin.equalTo", req.user.email)
  /\ UNCHANGED <<ctl, req, adminVars, filteredUpdates>>

srvCheckRoles_Admin ==
  /\ Resume("srvCheckRoles", "admin.equalTo")
  /\ \E o \in AdminQueryOutcomes :
       IF ~o.ok
       THEN /\ Respond(500, ServerError)
            /\ outcomes' = Append(outcomes, FALSE)
            /\ UNCHANGED adminVars
       ELSE /\ adminColl' = o.val
            /\ adminData' = EqualTo(o.val, req.user.email)
            /\ outcomes' = Append(outcomes, TRUE)
            /\ Respond(200,
                 [isSupplier |-> isSupplier,
                  isAdmin |-> (adminData' # <<>>),
                  user |-> UserBrief(req.user)])
  /\ UNCHANGED <<ctl, req, calls, scanVars, filteredUpdates>>

\* ------------------------------------ part_001: profile, update, admin
userProfile ==
  /\ Enter("userProfile")
  /\ Respond(200, [success |-> TRUE, profile |-> UserBrief(req.user)])
  /\ UNCHANGED <<ctl, req, calls, outcomes, scanVars, adminVars, filteredUpdates>>

allowedUpdates == <<"displayName", "photoURL">>

\* Copies every body key instead of the allowed ones.
FilterAll(updates) == updates

\* `for (const key of allowedUpdates) if (updates[key] !== undefined) ...`
Filter(updates) ==
  [k \in DOMAIN updates |->
     IF \E i \in 1..Len(allowedUpdates) : allowedUpdates[i] = k
     THEN updates[k] ELSE Undefined]

\* Object.keys(o)
Keys(o) == {k \in DOMAIN o : o[k] # Undefined}

userUpdate_Start ==
  /\ Enter("userUpdate")
  /\ filteredUpdates' = Filter(req.body)
  /\ IF Keys(filteredUpdates') = {}
     THEN /\ Respond(400, [error |-> "Aucune mise à jour valide fournie",
                           allowedUpdates |-> allowedUpdates])
          /\ calls' = calls
     ELSE Issue("updateUser", [uid |-> req.user.uid, updates |-> filteredUpdates'])
  /\ UNCHANGED <<ctl, req, outcomes, scanVars, adminVars>>

userUpdate_Result ==
  /\ Resume("userUpdate", "updateUser")
  /\ \E ok \in BOOLEAN :
       IF ok
       THEN /\ Respond(200, [success |-> TRUE, updates |-> filteredUpdates])
            /\ outcomes' = Append(outcomes, TRUE)
       ELSE /\ Respond(500, ServerError)
            /\ outcomes' = Append(outcomes, FALSE)
  /\ UNCHANGED <<ctl, req, calls, scanVars, adminVars, filteredUpdates>>

adminUsers_Start ==
  /\ Enter("adminUsers")
  /\ Issue("listUsers", "100")
  /\ UNCHANGED <<ctl, req, outcomes, scanVars, adminVars, filteredUpdates>>

adminUsers_Result ==
  /\ Resume("adminUsers", "listUsers")
  /\ \E ok \in BOOLEAN :
       IF ok
       THEN /\ Respond(200, [success |-> TRUE, count |-> Cardinality(Uids),
                             users |-> Uids])
            /\ outcomes' = Append(outcomes, TRUE)
       ELSE /\ Respond(500, ServerError)
            /\ outcomes' = Append(outcomes, FALSE)
  /\ UNCHANGED <<ctl, req, calls, scanVars, adminVars, filteredUpdates>>

\* ------------------------------------------------------- health routes
\* The startup block exits the process unless Firebase was initialised, so
\* every request is served with firebaseInitialized = true.
firebaseInitialized == TRUE

\* healthData as sent (timestamp, uptime and memory left out)
HealthData(database) ==
  [status |-> "OK",
   firebase |-> IF firebaseInitialized THEN "connected" ELSE "disconnected",
   database |-> database]

health_Start ==
  /\ Enter("health")
  /\ IF firebaseInitialized
     THEN Issue(".info/connected", "value")
     ELSE /\ Respond(200, HealthData("unknown"))
          /\ calls' = calls
  /\ UNCHANGED <<ctl, req, outcomes, scanVars, adminVars, filteredUpdates>>

\* A probe without its own try/catch: the rejection reaches the outer catch.
health_ResultOuterCatch ==
  /\ Resume("health", ".info/connected")
  /\ \E ok \in BOOLEAN :
       /\ outcomes' = Append(outcomes, ok)
       /\ IF ok
          THEN Respond(200, HealthData("connected"))
          ELSE Respond(500, [status |-> "ERROR", error |-> "probe failed"])
  /\ UNCHANGED <<ctl, req, calls, scanVars, adminVars, filteredUpdates>>

\* the probe resolves, or rejects into the inner catch; res.json(healthData)
health_Result ==
  /\ Resume("health", ".info/connected")
  /\ \E ok \in BOOLEAN :
       /\ outcomes' = Append(outcomes, ok)
       /\ IF ok
          THEN Respond(200, HealthData("connected"))
          ELSE Respond(200, HealthData("error"))
  /\ UNCHANGED <<ctl, req, calls, scanVars, adminVars, filteredUpdates>>

\* src/server.js: `res.json({ status: 'OK', timestamp })`, no probe
srvHealth ==
  /\ Enter("srvHealth")
  /\ Respond(200, [status |-> "OK"])
  /\ UNCHANGED <<ctl, req, calls, outcomes, scanVars, adminVars, filteredUpdates>>

Next ==
  \/ Receive
  \/ authenticateUser_Start
  \/ authenticateUser_Verified
  \/ authenticateFirebaseUser_Start
  \/ authenticateFirebaseUser_Verified
  \/ authenticateFirebaseUser_GotUser
  \/ requireAdmin_Start
  \/ requireAdmin_Result
  \/ requireSupplier_Start
  \/ requireSupplier_Result
  \/ downstream
  \/ checkRoles_Start
  \/ checkRoles_Suppliers
  \/ checkRoles_Admin
  \/ checkSupplier_Start
  \/ checkSupplier_Result
  \/ checkAdmin_Start
  \/ checkAdmin_Result
  \/ srvCheckSupplier_Start
  \/ srvCheckSupplier_Result
  \/ srvCheckAdmin_Start
  \/ srvCheckAdmin_Result
  \/ srvCheckRoles_Start
  \/ srvCheckRoles_Suppliers
  \/ srvCheckRoles_Admin
  \/ userProfile
  \/ userUpdate_Start
  \/ userUpdate_Result
  \/ adminUsers_Start
  \/ adminUsers_Result
  \/ health_Start
  \/ health_Result
  \/ srvHealth

Spec == Init /\ [][Next]_vars

\* Node's event loop runs every continuation that is ready and an awaited
\* SDK call settles, so a request that can take a step takes it.
FairSpec == Spec /\ WF_vars(Next)

\* ===================================================================
\* Vocabulary of the properties
\* ===================================================================
Issued(op) == \E i \in 1..Len(calls) : calls[i].op = op
CallOk(op) == \E i \in 1..Len(outcomes) : calls[i].op = op /\ outcomes[i]
Failed == \E i \in 1..Len(outcomes) : ~outcomes[i]
Entered(mw) == \E i \in 1..Len(ran) : ran[i] = mw
Times(mw) == Cardinality({i \in 1..Len(ran) : ran[i] = mw})
Finished == pc = "done"

\* the supplier fetch of this request resolved, so the scan has run
ScanRan == CallOk("fournisseur.once")
\* positions of the snapshot whose record satisfies the scan's comparison
MatchSet == {i \in 1..Len(suppliers) : Matches(suppliers[i].val, req.user)}
\* positions of the snapshot whose e-mail is the identity's e-mail
EmailMatches ==
  {i \in 1..Len(suppliers) : suppliers[i].val.email = req.user.email}
\* positions before i whose id field is the identity's uid
EarlierById(i) ==
  {j \in 1..(i - 1) : suppliers[j].val.id = req.user.uid}
\* the admin collection read by this request holds the identity's e-mail
AdminMatch ==
  \E i \in 1..Len(adminColl) : adminColl[i].val.email = req.user.email

SupplierHandlers == {"checkSupplier", "checkRoles", "srvCheckSupplier", "srvCheckRoles"}
AdminHandlers == {"checkAdmin", "checkRoles", "srvCheckAdmin", "srvCheckRoles"}
\* a 200 answer of a handler that reports isSupplier / isAdmin
SupplierReplied == Finished /\ res.status = 200 /\ Current \in SupplierHandlers
AdminReplied == Finished /\ res.status = 200 /\ Current \in AdminHandlers
SupplierAnswer ==
  IF Current = "checkRoles" THEN res.body.roles.isSupplier ELSE res.body.isSupplier
AdminAnswer ==
  IF Current = "checkRoles" THEN res.body.roles.isAdmin ELSE res.body.isAdmin

\* -------------------------------------------------------------------
\* C1: the supplier scan stops at the first record, in iteration order,
\* that satisfies the comparison (email equal to the identity's email or
\* id equal to the identity's uid); isSupplier, the loop variable at the
\* break and the record reported all belong to that first record and to
\* no later one.
C1_FirstMatchReported ==
  ScanRan =>
    /\ isSupplier = (MatchSet # {})
    /\ isSupplier =>
         \E i \in MatchSet :
           /\ \A j \in MatchSet : i <= j
           /\ supplierId = suppliers[i].key
           /\ supplierData # Null => supplierData.name = suppliers[i].val.name
           /\ SupplierReplied /\ server = "part_001" =>
                /\ res.body.supplier.id = suppliers[i].key
                /\ res.body.supplier.name = suppliers[i].val.name
    /\ ~isSupplier => supplierId = Undefined /\ supplierData = Null
    /\ SupplierReplied => SupplierAnswer = (MatchSet # {})

C1_Witness ==
  /\ SupplierReplied
  /\ Current = "checkSupplier"
  /\ Cardinality(MatchSet) = 2
  /\ res.body.isSupplier
  /\ res.body.supplier.id = "k1"

\* a handler that hands a supplier record on: the part_001 endpoints in
\* their answer, requireSupplier on req.user
ReturnsRecord ==
  \/ SupplierReplied /\ server = "part_001"
  \/ Entered("requireSupplier") /\ req.user.isSupplier
Returned ==
  IF Entered("requireSupplier") THEN req.user.supplierData ELSE res.body.supplier

\* -------------------------------------------------------------------
\* C2 (as stated): an identity whose email is the email of exactly one
\* record gets isSupplier = true and that very record, whatever the id
\* fields of the other records are.
C2_EmailRecordReturned ==
  (ScanRan /\ req.user.email # Undefined /\ Cardinality(EmailMatches) = 1) =>
    /\ isSupplier
    /\ ReturnsRecord =>
         \A i \in EmailMatches :
           /\ supplierId = suppliers[i].key
           /\ Returned.name = suppliers[i].val.name

\* C2 (amended): such an identity gets isSupplier = true; the record
\* returned is the one whose email matched unless a record earlier in
\* iteration order has an id field equal to the identity's uid, and then
\* it is the first such earlier record.
C2_EmailRecordUnlessEarlierId ==
  (ScanRan /\ req.user.email # Undefined /\ Cardinality(EmailMatches) = 1) =>
    /\ isSupplier
    /\ \A i \in EmailMatches :
         IF EarlierById(i) = {}
         THEN /\ supplierId = suppliers[i].key
              /\ ReturnsRecord => Returned.name = suppliers[i].val.name
         ELSE \E j \in EarlierById(i) :
                /\ \A k \in EarlierById(i) : j <= k
                /\ supplierId = suppliers[j].key
                /\ ReturnsRecord => Returned.name = suppliers[j].val.name

C2_Witness ==
  /\ SupplierReplied
  /\ Current = "checkRoles"
  /\ req.user.email # Undefined
  /\ EmailMatches = {2}
  /\ EarlierById(2) = {}
  /\ res.body.supplier.id = "k2"

\* -------------------------------------------------------------------
\* C3 (as stated): isSupplier is true exactly when some record has an
\* email that is the same string as the identity's email or an id equal
\* to the identity's uid; otherwise, also when the record or the identity
\* lacks the compared field, the answer is a normal response with
\* isSupplier = false and a null record.
StrictMatch(supplier, user) ==
  \/ supplier.email # Undefined /\ user.email # Undefined
       /\ supplier.email = user.email
  \/ supplier.id # Undefined /\ supplier.id = user.uid

C3_SupplierIffExactMatch ==
  LET hit == \E i \in 1..Len(suppliers) : StrictMatch(suppliers[i].val, req.user)
  IN /\ SupplierReplied => SupplierAnswer = hit
     /\ (Finished /\ ScanRan /\ ~hit
           /\ Current \in {"checkSupplier", "srvCheckSupplier"}) =>
          /\ res.status = 200
          /\ ~res.body.isSupplier
          /\ Current = "checkSupplier" => res.body.supplier = Null

\* -------------------------------------------------------------------
\* C4 (as stated): isAdmin is true exactly when the admin collection
\* holds a record with the identity's email; without a match the admin
\* record is null; and an identity matching neither a supplier nor an
\* admin record gets isSupplier = false and isAdmin = false from GET
\* /api/check-roles.  Requests in which a store or provider call rejected
\* are set aside: they answer 500 by design.
C4_AdminResolution ==
  /\ AdminReplied =>
       /\ AdminAnswer = AdminMatch
       /\ (Current = "checkAdmin" /\ ~AdminMatch) => res.body.admin = Null
  /\ (Finished /\ Current \in {"checkRoles", "srvCheckRoles"} /\ ~Failed
        /\ MatchSet = {} /\ ~AdminMatch) =>
       /\ res.status = 200
       /\ ~SupplierAnswer
       /\ ~AdminAnswer

\* -------------------------------------------------------------------
\* C5 (as stated): requireAdmin, run for an authenticated identity whose
\* email matches no admin record, ends the request with 403, never with
\* 500, and does not pass control on.  Requests in which the admin query
\* itself rejected are set aside.
C5_NonAdminGets403 ==
  (Entered("requireAdmin") /\ req.user.present /\ Finished /\ ~Failed
     /\ ~AdminMatch) =>
    /\ res.status = 403
    /\ Current = "requireAdmin"

\* -------------------------------------------------------------------
\* C6, shared part: GET /api/admin/users runs authenticate, requireAdmin
\* and the handler in that order, and listUsers is called only after the
\* token was verified, the user loaded and the admin query found a record
\* with the identity's email.
AdminUsersOrder ==
  /\ \A i \in 1..Len(ran) : ran[i] = Chain(server, route)[i]
  /\ Issued("listUsers") =>
       /\ CallOk("verifyIdToken")
       /\ CallOk("getUser")
       /\ CallOk("admin.equalTo")
       /\ AdminMatch
       /\ req.user.isAdmin
       /\ \E i, j, k \in 1..Len(calls) :
            /\ i < j /\ j < k
            /\ calls[i].op = "verifyIdToken"
            /\ calls[j].op = "admin.equalTo"
            /\ calls[k].op = "listUsers"
  /\ (Finished /\ res.status = 200) => Issued("listUsers")

\* C6 (as stated): ... and a request that fails either step gets 401 or
\* 403 and never reaches listUsers.
C6_FailureIs401Or403 ==
  route = "/api/admin/users" =>
    /\ AdminUsersOrder
    /\ (Finished /\ Current # "adminUsers") =>
         /\ res.status \in {401, 403}
         /\ ~Issued("listUsers")

\* C6 (amended): ... and a request that fails either step never reaches
\* listUsers; it is answered 401 or 404 (user not found) by the
\* authentication step, or 403 or 500 by requireAdmin.
C6_AdminUsersGuarded ==
  route = "/api/admin/users" =>
    /\ AdminUsersOrder
    /\ (Finished /\ Current # "adminUsers") =>
         /\ ~Issued("listUsers")
         /\ ~Entered("adminUsers")
         /\ Current = "authenticateFirebaseUser" => res.status \in {401, 404}
         /\ Current = "requireAdmin" => res.status \in {403, 500}
         /\ (Current = "requireAdmin" /\ ~Failed /\ req.user.email # Undefined)
              => res.status = 403 /\ ~AdminMatch

C6_Witness ==
  /\ route = "/api/admin/users"
  /\ Finished
  /\ res.status = 200
  /\ Issued("listUsers")
  /\ ran = <<"authenticateFirebaseUser", "requireAdmin", "adminUsers">>

\* -------------------------------------------------------------------
\* C7: the authentication middleware ended the request
AuthMiddleware == {"authenticateUser", "authenticateFirebaseUser"}
AuthFailed == Finished /\ Current \in AuthMiddleware
OnlyProviderCalls ==
  \A i \in 1..Len(calls) : calls[i].op \in {"verifyIdToken", "getUser"}
TokenRejected == Len(outcomes) >= 1 /\ ~outcomes[1]

\* C7 (as stated): a missing or non-Bearer header or a token the
\* verifier rejects is answered 401 with no role-store query and no
\* handler run, and every authentication failure maps to 401.
C7_AuthFailureIs401 ==
  AuthFailed =>
    /\ res.status = 401
    /\ OnlyProviderCalls
    /\ Len(ran) = 1

\* C7 (amended): a missing or non-Bearer header or a token the verifier
\* rejects is answered 401; an authentication failure maps to 401 except
\* when the identity provider reports the token's user as not found,
\* which the full server answers 404; in every such request no role-store
\* query is issued and no handler runs.
C7_AuthFailureIs401Or404 ==
  /\ AuthFailed =>
       /\ res.status \in {401, 404}
       /\ res.status = 404 <=>
            (server = "part_001" /\ CallOk("verifyIdToken")
               /\ res.body.code = "auth/user-not-found")
       /\ (BadHeader(req.authorization) \/ TokenRejected) => res.status = 401
       /\ OnlyProviderCalls
       /\ Len(ran) = 1
       /\ ~req.user.present
  /\ (Len(ran) >= 2 /\ ran[1] \in AuthMiddleware) =>
       /\ req.user.present
       /\ CallOk("verifyIdToken")
       /\ ~BadHeader(req.authorization)

C7_Witness ==
  /\ AuthFailed
  /\ server = "part_001"
  /\ req.authorization.token.kind = "revoked"
  /\ TokenRejected
  /\ res.status = 401

\* -------------------------------------------------------------------
\* C8: requireSupplier calls the downstream handler only when the scan
\* found a match, and then exactly once, after setting isSupplier = true
\* on req.user and attaching the matched record (every field the record
\* has) as supplierData; a scan without a match ends the request with 403.
C8_RequireSupplierGate ==
  Entered("requireSupplier") =>
    /\ Times("downstream") <= 1
    /\ Entered("downstream") => ScanRan /\ MatchSet # {}
    /\ (ScanRan /\ MatchSet = {}) =>
         /\ Finished
         /\ res.status = 403
         /\ Current = "requireSupplier"
         /\ ~req.user.isSupplier
    /\ (ScanRan /\ MatchSet # {}) =>
         /\ req.user.isSupplier
         /\ req.user.supplierData # Null
         /\ \E i \in MatchSet :
              /\ \A j \in MatchSet : i <= j
              /\ \A f \in DOMAIN suppliers[i].val :
                   suppliers[i].val[f] # Undefined =>
                     req.user.supplierData[f] = suppliers[i].val[f]
         /\ Current = "downstream"
         /\ Finished => Times("downstream") = 1 /\ res.status = 200

C8_Witness ==
  /\ Entered("requireSupplier")
  /\ Entered("downstream")
  /\ Finished
  /\ req.user.isSupplier
  /\ req.user.supplierData # Null
  /\ req.user.supplierData.email = "a@x.com"

\* -------------------------------------------------------------------
\* C9: a guard run on a request without req.user answers 401, issues no
\* call at all and does not run the downstream handler.
C9_GuardWithoutIdentity ==
  (Len(ran) >= 1 /\ ran[1] \in {"requireAdmin", "requireSupplier"}) =>
    /\ ~req.user.present
    /\ Finished
    /\ res.status = 401
    /\ Len(calls) = 0
    /\ Len(ran) = 1

C9_Witness ==
  /\ Finished
  /\ ran = <<"requireAdmin">>
  /\ res.status = 401

\* -------------------------------------------------------------------
\* C10: PUT /api/user/update hands updateUser the uid of the token's
\* owner and exactly the displayName / photoURL keys present in the body;
\* a body with neither is answered 400 with allowedUpdates =
\* ["displayName", "photoURL"] and no updateUser call.
C10_UpdateWhitelist ==
  Entered("userUpdate") =>
    /\ \A i \in 1..Len(calls) :
         calls[i].op = "updateUser" =>
           /\ calls[i].arg.uid = req.authorization.token.uid
           /\ \A k \in DOMAIN req.body :
                calls[i].arg.updates[k] =
                  IF k \in {"displayName", "photoURL"}
                  THEN req.body[k] ELSE Undefined
           /\ \E k \in {"displayName", "photoURL"} : req.body[k] # Undefined
    /\ (req.body.displayName = Undefined /\ req.body.photoURL = Undefined) =>
         /\ Finished
         /\ res.status = 400
         /\ res.body.allowedUpdates = <<"displayName", "photoURL">>
         /\ ~Issued("updateUser")
    /\ (Finished /\ res.status = 200) =>
         /\ Issued("updateUser")
         /\ res.body.updates.foo = Undefined
         /\ res.body.updates.uid = Undefined

C10_Witness ==
  /\ Entered("userUpdate")
  /\ Finished
  /\ res.status = 200
  /\ req.body.foo = "bar"
  /\ req.body.uid = "u1"
  /\ req.authorization.token.uid = "u2"
  /\ req.body.displayName = "null"
  /\ Issued("updateUser")
\* -------------------------------------------------------------------
\* C11: when a role-store access (the supplier fetch or the admin query)
\* rejects, the request ends at once with status 500 and a body that
\* carries no role result (no isSupplier, isAdmin, roles, supplier or
\* admin); a guard does not answer 403 and does not pass control on.
StoreOps == {"fournisseur.once", "admin.equalTo"}
StoreFailed ==
  \E i \in 1..Len(outcomes) : ~outcomes[i] /\ calls[i].op \in StoreOps
RoleFields == {"isSupplier", "isAdmin", "roles", "supplier", "admin"}

C11_StoreFailureIs500 ==
  StoreFailed =>
    /\ Finished
    /\ res.status = 500
    /\ DOMAIN res.body \cap RoleFields = {}
    /\ Len(calls) = Len(outcomes)
    /\ ~outcomes[Len(outcomes)]
    /\ calls[Len(calls)].op \in StoreOps
    /\ ~req.user.isAdmin
    /\ ~req.user.isSupplier
    /\ ~Entered("downstream")
    /\ ~Entered("adminUsers")

C11_Witness ==
  /\ StoreFailed
  /\ Current = "checkRoles"
  /\ ScanRan
  /\ isSupplier
  /\ res.status = 500
\* -------------------------------------------------------------------
\* C12: GET /api/health always answers: every health request ends with a
\* 200 response whose body has status "OK"; in the full server the body
\* reports database "connected" when the probe resolved and database
\* "error" (with status still "OK") when the probe rejected, and the
\* rejection is answered at once, never left unhandled.
ProbeOk == CallOk(".info/connected")
ProbeFailed == Len(outcomes) = 1 /\ ~outcomes[1]
HealthRequested == route = "/api/health" /\ pc # "idle"
HealthAnswered ==
  /\ route = "/api/health"
  /\ Finished
  /\ res.status = 200
  /\ res.body.status = "OK"
HealthSafe ==
  route = "/api/health" =>
    /\ Len(outcomes) = 1 => Finished
    /\ Finished =>
         /\ HealthAnswered
         /\ server = "part_001" =>
              /\ ProbeOk => res.body.database = "connected"
              /\ ProbeFailed => res.body.database = "error"
              /\ ProbeOk \/ ProbeFailed

C12_HealthAlwaysAnswers ==
  /\ [](HealthSafe)
  /\ HealthRequested ~> HealthAnswered

C12_Witness ==
  /\ HealthAnswered
  /\ server = "part_001"
  /\ ProbeFailed
  /\ res.body.database = "error"
\* -------------------------------------------------------------------
\* C13: every successful GET /api/check-roles has read both stores in
\* that request, the supplier collection first and the admin query after
\* it, each exactly once, whatever the other role turned out to be; the
\* isSupplier and isAdmin it reports are the results of those two reads.
CountOf(op) == Cardinality({i \in 1..Len(calls) : calls[i].op = op})
RolesHandlers == {"checkRoles", "srvCheckRoles"}
RolesReplied == Finished /\ res.status = 200 /\ Current \in RolesHandlers

C13_BothRolesEvaluated ==
  /\ RolesReplied =>
       /\ CallOk("fournisseur.once")
       /\ CallOk("admin.equalTo")
       /\ CountOf("fournisseur.once") = 1
       /\ CountOf("admin.equalTo") = 1
       /\ \E i, j \in 1..Len(calls) :
            /\ i < j
            /\ calls[i].op = "fournisseur.once"
            /\ calls[j].op = "admin.equalTo"
       /\ SupplierAnswer = (MatchSet # {})
       /\ AdminAnswer = AdminMatch
  \* once the scan has run for an identity with an e-mail, the admin
  \* query is issued, match or no match
  /\ (pc # "idle" /\ pc # "run" /\ Current \in RolesHandlers /\ ScanRan
        /\ req.user.email # Undefined) =>
       Issued("admin.equalTo")

C13_Witness ==
  /\ RolesReplied
  /\ Current = "checkRoles"
  /\ MatchSet # {}
  /\ res.body.roles.isSupplier
  /\ ~res.body.roles.isAdmin
  /\ CallOk("admin.equalTo")
  /\ Len(adminColl) > 0
\* -------------------------------------------------------------------
\* C14: within one request the verifier and store calls are issued one
\* after another: at most one call is outstanding, and it is the last one
\* issued; no call is issued twice; a call that failed is the last call
\* the request ever issued, and the response is sent in the step that
\* observes the failure.
Outstanding == Len(calls) - Len(outcomes)

C14_CallsSequential ==
  /\ Outstanding \in {0, 1}
  /\ (Outstanding = 1) <=> (pending.op # NoCall.op)
  /\ (Outstanding = 1) =>
       /\ pc = "await"
       /\ pending.op = calls[Len(calls)].op
  /\ \A i, j \in 1..Len(calls) : calls[i].op = calls[j].op => i = j
  /\ \A i \in 1..Len(outcomes) : ~outcomes[i] => i = Len(calls)
  /\ Failed => Finished /\ res.status # 0

C14_Witness ==
  /\ Finished
  /\ route = "/api/admin/users"
  /\ Len(calls) = 4
  /\ Len(outcomes) = 4
  /\ outcomes[1] /\ outcomes[2] /\ outcomes[3]
  /\ ~outcomes[4]
  /\ res.status = 500
\* -------------------------------------------------------------------
\* C15: whenever supplier resolution reports a match, the id of the
\* record it returns (GET /api/check-roles, GET /api/check-supplier) or
\* attaches (requireSupplier) is the registry key of the matched record,
\* also when the stored record has an id field of its own.
MatchReported == ReturnsRecord /\ isSupplier

C15_RecordIdIsRegistryKey ==
  MatchReported =>
    /\ supplierId = suppliers[ScanFrom(suppliers, req.user, 1)].key
    /\ Returned.id = supplierId
\* -------------------------------------------------------------------
\* C16: for one identity and one store content every place that resolves
\* a role gives the same answer.  A request that authenticated and met no
\* store failure yields, at each supplier place (GET /api/check-supplier,
\* GET /api/check-roles, requireSupplier, and the two handlers of
\* src/server.js), the verdict that the identity and the supplier
\* collection determine, requireSupplier passing exactly when the
\* endpoints report true; and at each admin place (GET /api/check-admin,
\* GET /api/check-roles, requireAdmin, and the two handlers of
\* src/server.js) the verdict that the identity and the admin collection
\* determine.
Bool(b) == IF b THEN "true" ELSE "false"

SupplierPlaceDone ==
  /\ Finished
  /\ ~StoreFailed
  /\ req.user.present
  /\ Current \in SupplierHandlers \/ Entered("requireSupplier")
AdminPlaceDone ==
  /\ Finished
  /\ ~StoreFailed
  /\ req.user.present
  /\ Current \in AdminHandlers \/ Entered("requireAdmin")

\* what the place answered: a guard by passing or denying, an endpoint
\* by the flag of its 200 body; "error" when it gave no role answer
SupplierVerdict ==
  IF Entered("requireSupplier")
  THEN IF Entered("downstream") THEN "true"
       ELSE IF res.status = 403 THEN "false" ELSE "error"
  ELSE IF res.status = 200 THEN Bool(SupplierAnswer) ELSE "error"
AdminVerdict ==
  IF Entered("requireAdmin")
  THEN IF Entered("downstream") \/ Entered("adminUsers") THEN "true"
       ELSE IF res.status = 403 THEN "false" ELSE "error"
  ELSE IF res.status = 200 THEN Bool(AdminAnswer) ELSE "error"

\* what the identity and the store contents determine
SupplierExpected == Bool(MatchSet # {})
AdminExpected ==
  IF QueryThrows(req.user.email) THEN "error" ELSE Bool(AdminMatch)

C16_RolePlacesAgree ==
  /\ SupplierPlaceDone => ScanRan /\ SupplierVerdict = SupplierExpected
  /\ AdminPlaceDone => AdminVerdict = AdminExpected
====
